---- MODULE Spec2Model ----
(***************************************************************************)
(* dbdiffer: comparison of two MySQL schema snapshots (Driver.Diff) and    *)
(* synthesis of the DDL statements that upgrade the older one              *)
(* (Driver.Generate), src/mysql/mysql.go and src/differ.go.                *)
(*                                                                         *)
(* Strings whose characters the code inspects (column types, collations,   *)
(* defaults, comments, extras) are sequences of one-character strings;     *)
(* strings the code only compares or copies (names, engine, ...) are TLA+  *)
(* strings.  A *string is a record [nil, v].                               *)
(***************************************************************************)
EXTENDS Integers, Sequences, FiniteSets, TLC

VARIABLES older, newer, pc, result, arg, sqls, err, db, pos, rendering

vars == <<older, newer, pc, result, arg, sqls, err, db, pos, rendering>>

(***************************************************************************)
(* Bounds of the explored inputs.                                          *)
(***************************************************************************)
MaxFields == 2
MaxIndexes == 1
MaxDefaultLen == 2

(***************************************************************************)
(* Generic sequence helpers.                                               *)
(***************************************************************************)
RECURSIVE Concat(_)
Concat(ss) ==
    IF ss = <<>> THEN <<>> ELSE Head(ss) \o Concat(Tail(ss))

Range(s) == {s[i] : i \in DOMAIN s}

\* strings.Index(s, ch) for a one-character ch; 0 when absent (Go: -1), else 1-based.
IndexOf(s, ch) ==
    IF \E i \in DOMAIN s : s[i] = ch
    THEN CHOOSE i \in DOMAIN s : s[i] = ch /\ \A j \in 1..(i - 1) : s[j] # ch
    ELSE 0

HasPrefix(s, p) == Len(s) >= Len(p) /\ SubSeq(s, 1, Len(p)) = p

Nil == [nil |-> TRUE, v |-> <<>>]
Ptr(s) == [nil |-> FALSE, v |-> s]

(***************************************************************************)
(* src/differ.go: Result, Table, Field, Index.                             *)
(***************************************************************************)
NoFields == [Create |-> <<>>, Drop |-> <<>>, Change |-> <<>>, Add |-> <<>>]
NoIndexes == [Create |-> <<>>, Add |-> <<>>, Drop |-> <<>>]

ResultIsEmpty(r) == Len(r.Drop) = 0 /\ Len(r.Create) = 0 /\ Len(r.Change) = 0

ResultFieldsIsEmpty(f) ==
    Len(f.Create) = 0 /\ Len(f.Drop) = 0 /\ Len(f.Change) = 0 /\ Len(f.Add) = 0

ResultIndexesIsEmpty(f) ==
    Len(f.Create) = 0 /\ Len(f.Drop) = 0 /\ Len(f.Add) = 0

TableEqual(t, t2) ==
    /\ t.Name = t2.Name
    /\ t.Engine = t2.Engine
    /\ t.Version = t2.Version
    /\ t.RowFormat = t2.RowFormat
    /\ t.Options = t2.Options
    /\ t.Comment = t2.Comment
    /\ t.Collation = t2.Collation

\* TableIsEmpty taking the name, which every table has, for one of the attributes.
TableIsEmpty_WithName(t) ==
    /\ t.Name = ""
    /\ t.Engine = "" /\ t.Version = "" /\ t.RowFormat = "" /\ t.Options = ""
    /\ t.Comment = "" /\ t.Collation = <<>>
    /\ ResultFieldsIsEmpty(t.Fields) /\ ResultIndexesIsEmpty(t.Indexes)

TableIsEmpty(t) ==
    /\ t.Engine = "" /\ t.Version = "" /\ t.RowFormat = "" /\ t.Options = ""
    /\ t.Comment = "" /\ t.Collation = <<>>
    /\ ResultFieldsIsEmpty(t.Fields) /\ ResultIndexesIsEmpty(t.Indexes)

\* a && b in Go, over "true" / "false" / "panic": b is not evaluated unless a is true.
And3(a, b) == IF a = "true" THEN b ELSE a

Bool3(b) == IF b THEN "true" ELSE "false"

\* PtrEqual without its nil test: *p == *q.
PtrEqual_Unguarded(p, q) ==
    IF p.nil \/ q.nil THEN "panic" ELSE Bool3(p.v = q.v)

\* (p == nil && q == nil) || *p == *q : dereferencing a nil pointer panics.
PtrEqual(p, q) ==
    IF p.nil /\ q.nil THEN "true"
    ELSE IF p.nil \/ q.nil THEN "panic"
    ELSE Bool3(p.v = q.v)

FieldEqual(f, f2) ==
    And3(Bool3(f.Field = f2.Field),
    And3(Bool3(f.Type = f2.Type),
    And3(PtrEqual(f.Collation, f2.Collation),
    And3(Bool3(f.Null = f2.Null),
    And3(PtrEqual(f.Default, f2.Default),
    And3(Bool3(f.Extra = f2.Extra),
         Bool3(f.Comment = f2.Comment)))))))

\* IndexEqual comparing the columns as a set.
IndexEqual_Unordered(i, i2) ==
    /\ i.Table = i2.Table
    /\ i.NonUnique = i2.NonUnique
    /\ i.KeyName = i2.KeyName
    /\ Range(i.ColumnName) = Range(i2.ColumnName)
    /\ i.Collation = i2.Collation
    /\ i.IndexType = i2.IndexType
    /\ i.Comment = i2.Comment
    /\ i.IndexComment = i2.IndexComment

IndexEqual(i, i2) ==
    /\ i.Table = i2.Table
    /\ i.NonUnique = i2.NonUnique
    /\ i.KeyName = i2.KeyName
    /\ i.ColumnName = i2.ColumnName
    /\ i.Collation = i2.Collation
    /\ i.IndexType = i2.IndexType
    /\ i.Comment = i2.Comment
    /\ i.IndexComment = i2.IndexComment

(***************************************************************************)
(* The name -> position maps built by tables(), fields() and indexes():    *)
(* a later row with the same key overwrites the entry.                     *)
(***************************************************************************)
Exists(rows, key, name) == \E i \in DOMAIN rows : rows[i][key] = name

PosOf(rows, key, name) ==
    CHOOSE i \in DOMAIN rows :
        rows[i][key] = name /\ \A j \in DOMAIN rows : rows[j][key] = name => j <= i

(***************************************************************************)
(* Driver.Diff, the comparison of one table present in both snapshots.     *)
(***************************************************************************)
RECURSIVE IndexesDropped(_, _)
IndexesDropped(oldindexes, newindexes) ==
    IF oldindexes = <<>> THEN <<>>
    ELSE LET oldindex == Head(oldindexes)
             rest == IndexesDropped(Tail(oldindexes), newindexes)
         IN IF ~Exists(newindexes, "KeyName", oldindex.KeyName)
            THEN <<oldindex>> \o rest
            ELSE IF IndexEqual(oldindex, newindexes[PosOf(newindexes, "KeyName", oldindex.KeyName)])
                 THEN rest
                 ELSE <<oldindex>> \o rest

RECURSIVE IndexesReplaced(_, _)
IndexesReplaced(oldindexes, newindexes) ==
    IF oldindexes = <<>> THEN <<>>
    ELSE LET oldindex == Head(oldindexes)
             rest == IndexesReplaced(Tail(oldindexes), newindexes)
         IN IF ~Exists(newindexes, "KeyName", oldindex.KeyName)
            THEN rest
            ELSE LET newindex == newindexes[PosOf(newindexes, "KeyName", oldindex.KeyName)]
                 IN IF IndexEqual(oldindex, newindex) THEN rest ELSE <<newindex>> \o rest

IndexesAdded(oldindexes, newindexes) ==
    SelectSeq(newindexes, LAMBDA newindex : ~Exists(oldindexes, "KeyName", newindex.KeyName))

DiffIndexes(oldindexes, newindexes) ==
    [Create |-> <<>>,
     Add |-> IndexesReplaced(oldindexes, newindexes) \o IndexesAdded(oldindexes, newindexes),
     Drop |-> IndexesDropped(oldindexes, newindexes)]

\* The loop over oldfields: [panic, Drop, Change].
RECURSIVE FieldsOld(_, _)
FieldsOld(oldfields, newfields) ==
    IF oldfields = <<>> THEN [panic |-> FALSE, Drop |-> <<>>, Change |-> <<>>]
    ELSE LET oldfield == Head(oldfields)
             rest == FieldsOld(Tail(oldfields), newfields)
         IN IF ~Exists(newfields, "Field", oldfield.Field)
            THEN [rest EXCEPT !.Drop = <<oldfield>> \o @]
            ELSE LET newfield == newfields[PosOf(newfields, "Field", oldfield.Field)]
                     eq == FieldEqual(oldfield, newfield)
                 IN IF eq = "panic" THEN [rest EXCEPT !.panic = TRUE]
                    ELSE IF eq = "true" THEN rest
                    ELSE [rest EXCEPT !.Change = <<newfield>> \o @]

FieldsAdded(oldfields, newfields) ==
    SelectSeq(newfields, LAMBDA newfield : ~Exists(oldfields, "Field", newfield.Field))

\* The else-branch of the loop over newtables: [panic, change].
DiffTable(olddetail, newdetail, oldfields, newfields, oldindexes, newindexes) ==
    LET blank == [Name |-> newdetail.Name, Engine |-> "", Version |-> "", RowFormat |-> "",
                  Options |-> "", Comment |-> "", Collation |-> <<>>,
                  Fields |-> NoFields, Indexes |-> NoIndexes]
        change0 == IF ~TableEqual(olddetail, newdetail) THEN newdetail ELSE blank
        olds == FieldsOld(oldfields, newfields)
    IN [panic |-> olds.panic,
        change |-> [change0 EXCEPT
                      !.Indexes = DiffIndexes(oldindexes, newindexes),
                      !.Fields = [Create |-> <<>>, Drop |-> olds.Drop, Change |-> olds.Change,
                                  Add |-> FieldsAdded(oldfields, newfields)]]]

(***************************************************************************)
(* Driver.Diff over two snapshots.  A snapshot is what tables(), fields()  *)
(* and indexes() return: [tables, fields, indexes], the last two keyed by  *)
(* table name.                                                             *)
(***************************************************************************)
TablesDropped(o, n) ==
    SelectSeq(o.tables, LAMBDA olddetail : ~Exists(n.tables, "Name", olddetail.Name))

RECURSIVE TablesCreated(_, _, _)
TablesCreated(o, n, newtables) ==
    IF newtables = <<>> THEN <<>>
    ELSE LET newdetail == Head(newtables)
             rest == TablesCreated(o, n, Tail(newtables))
         IN IF ~Exists(o.tables, "Name", newdetail.Name)
            THEN <<[newdetail EXCEPT !.Fields.Create = n.fields[newdetail.Name],
                                      !.Indexes.Create = n.indexes[newdetail.Name]]>> \o rest
            ELSE rest

\* [panic, Change] of the loop over newtables.
RECURSIVE TablesChanged(_, _, _)
TablesChanged(o, n, newtables) ==
    IF newtables = <<>> THEN [panic |-> FALSE, Change |-> <<>>]
    ELSE LET newdetail == Head(newtables)
             rest == TablesChanged(o, n, Tail(newtables))
         IN IF ~Exists(o.tables, "Name", newdetail.Name) THEN rest
            ELSE LET olddetail == o.tables[PosOf(o.tables, "Name", newdetail.Name)]
                     d == DiffTable(olddetail, newdetail,
                                    o.fields[olddetail.Name], n.fields[newdetail.Name],
                                    o.indexes[olddetail.Name], n.indexes[newdetail.Name])
                 IN IF d.panic THEN [rest EXCEPT !.panic = TRUE]
                    ELSE IF ~TableIsEmpty(d.change)
                         THEN [rest EXCEPT !.Change = <<d.change>> \o @]
                         ELSE rest

EmptyResult == [Drop |-> <<>>, Create |-> <<>>, Change |-> <<>>]

\* [panic, result]: a nil dereference in Field.Equal ends Diff without a result.
Diff(o, n) ==
    LET ch == TablesChanged(o, n, n.tables)
    IN IF ch.panic THEN [panic |-> TRUE, result |-> EmptyResult]
       ELSE [panic |-> FALSE,
             result |-> [Drop |-> TablesDropped(o, n),
                         Create |-> TablesCreated(o, n, n.tables),
                         Change |-> ch.Change]]

(***************************************************************************)
(* The rendering helpers of src/mysql/mysql.go.  A rendered clause is the  *)
(* sequence of its characters.                                             *)
(***************************************************************************)
UpperCase == <<"A","B","C","D","E","F","G","H","I","J","K","L","M",
               "N","O","P","Q","R","S","T","U","V","W","X","Y","Z">>
LowerCase == <<"a","b","c","d","e","f","g","h","i","j","k","l","m",
               "n","o","p","q","r","s","t","u","v","w","x","y","z">>

\* strings.ToLower
ToLower(s) ==
    [i \in DOMAIN s |->
        IF \E k \in DOMAIN UpperCase : UpperCase[k] = s[i]
        THEN LowerCase[CHOOSE k \in DOMAIN UpperCase : UpperCase[k] = s[i]]
        ELSE s[i]]

\* strings.Replace(s, old, "", -1) for a non-empty old.
RECURSIVE RemoveAll(_, _)
RemoveAll(s, old) ==
    IF s = <<>> THEN <<>>
    ELSE IF HasPrefix(s, old) THEN RemoveAll(SubSeq(s, Len(old) + 1, Len(s)), old)
    ELSE <<Head(s)>> \o RemoveAll(Tail(s), old)

\* strings.Split(s, "_")[0]
Charset(s) == IF IndexOf(s, "_") = 0 THEN s ELSE SubSeq(s, 1, IndexOf(s, "_") - 1)

sqlnull(s) ==
    IF s = "NO" THEN " NOT NULL"
    ELSE IF s = "YES" THEN " NULL"
    ELSE ""

RECURSIVE escape(_)
escape(s) ==
    IF s = <<>> THEN <<>>
    ELSE IF Head(s) = "\\" THEN <<"\\", "\\">> \o escape(Tail(s))
    ELSE IF Head(s) = "'" THEN <<"\\", "'">> \o escape(Tail(s))
    ELSE <<Head(s)>> \o escape(Tail(s))

QuotedTypes ==
    { <<"v","a","r","c","h","a","r">>, <<"c","h","a","r">>, <<"b","l","o","b">>,
      <<"t","e","x","t">>, <<"t","i","n","y","b","l","o","b">>,
      <<"t","i","n","y","t","e","x","t">>, <<"m","e","d","i","u","m","b","l","o","b">>,
      <<"m","e","d","i","u","m","t","e","x","t">>, <<"l","o","n","g","b","l","o","b">>,
      <<"l","o","n","g","t","e","x","t">>, <<"e","n","u","m">> }

DefaultKw == <<" ","D","E","F","A","U","L","T"," ">>

\* sqldefault without strings.ToLower.
sqldefault_CaseSensitive(typ, s) ==
    IF s.nil THEN <<>>
    ELSE LET base == IF IndexOf(typ, "(") # 0 THEN SubSeq(typ, 1, IndexOf(typ, "(") - 1) ELSE typ
         IN IF base \in QuotedTypes
            THEN DefaultKw \o <<"'">> \o escape(s.v) \o <<"'">>
            ELSE DefaultKw \o s.v

sqldefault(typ, s) ==
    IF s.nil THEN <<>>
    ELSE LET base == IF IndexOf(typ, "(") # 0 THEN SubSeq(typ, 1, IndexOf(typ, "(") - 1) ELSE typ
         IN IF ToLower(base) \in QuotedTypes
            THEN DefaultKw \o <<"'">> \o escape(s.v) \o <<"'">>
            ELSE DefaultKw \o s.v

DefaultGenerated ==
    <<"D","E","F","A","U","L","T","_","G","E","N","E","R","A","T","E","D">>

sqlextra(s) == <<" ">> \o RemoveAll(s, DefaultGenerated)

CommentKw == <<" ","C","O","M","M","E","N","T"," ">>

sqlcomment(s) ==
    IF s = <<>> THEN <<>>
    ELSE CommentKw \o <<"'">> \o escape(s) \o <<"'">>

sqluniq(s) == IF s = 0 THEN "UNIQUE" ELSE "INDEX"

\* " CHARACTER SET " + chars[0] + " COLLATE " + *s, kept as its two values.
sqlcol(s) ==
    IF s.nil THEN [present |-> FALSE, charset |-> <<>>, collate |-> <<>>]
    ELSE [present |-> TRUE, charset |-> Charset(s.v), collate |-> s.v]

\* " AFTER `" + s + "`", kept as the positional keyword and the column named.
after(s) ==
    IF s = "" THEN [kw |-> "", column |-> ""]
    ELSE [kw |-> "AFTER", column |-> s]

(***************************************************************************)
(* Driver.Generate.  A statement is a record of the pieces the code        *)
(* concatenates, in `kind` the statement's fixed words.                    *)
(***************************************************************************)
DropTableStmt(table) == [kind |-> "DROP TABLE", table |-> table.Name]

ColumnDef(field) ==
    [column |-> field.Field, type |-> field.Type, null |-> sqlnull(field.Null),
     default |-> sqldefault(field.Type, field.Default),
     extra |-> sqlextra(field.Extra), comment |-> sqlcomment(field.Comment)]

IndexDef(index) ==
    IF index.KeyName = "PRIMARY"
    THEN [word |-> "PRIMARY KEY", key |-> "", columns |-> index.ColumnName]
    ELSE [word |-> sqluniq(index.NonUnique), key |-> index.KeyName, columns |-> index.ColumnName]

CreateTableStmt(table) ==
    [kind |-> "CREATE TABLE", table |-> table.Name,
     columns |-> [i \in DOMAIN table.Fields.Create |-> ColumnDef(table.Fields.Create[i])],
     indexes |-> [i \in DOMAIN table.Indexes.Create |-> IndexDef(table.Indexes.Create[i])],
     engine |-> table.Engine, charset |-> Charset(table.Collation)]

AlterAttr(table) ==
    IF table.Engine # "" \/ table.RowFormat # "" \/ table.Comment # "" \/ table.Collation # <<>>
    THEN <<[kind |-> "ALTER TABLE", table |-> table.Name,
            engineWord |-> "ENGIINE", engine |-> table.Engine,
            rowFormatWord |-> "ROWFORMAT", rowFormat |-> table.RowFormat,
            comment |-> table.Comment,
            charset |-> Charset(table.Collation), collate |-> table.Collation]>>
    ELSE <<>>

DropIndexStmt(index) ==
    IF index.KeyName = "PRIMARY"
    THEN [kind |-> "DROP PRIMARY KEY", table |-> index.Table, key |-> "PRIMARY"]
    ELSE [kind |-> "DROP INDEX", table |-> index.Table, key |-> index.KeyName]

DropColumnStmt(table, field) ==
    [kind |-> "DROP", table |-> table.Name, column |-> field.Field]

AddColumnStmt(table, field) ==
    [kind |-> "ADD", table |-> table.Name, column |-> field.Field, type |-> field.Type,
     col |-> sqlcol(field.Collation), null |-> sqlnull(field.Null),
     default |-> sqldefault(field.Type, field.Default),
     extra |-> sqlextra(field.Extra), comment |-> sqlcomment(field.Comment),
     after |-> after(field.After)]

ChangeColumnStmt(table, field) ==
    [kind |-> "CHANGE", table |-> table.Name, column |-> field.Field, to |-> field.Field,
     type |-> field.Type,
     col |-> sqlcol(field.Collation), null |-> sqlnull(field.Null),
     default |-> sqldefault(field.Type, field.Default),
     extra |-> sqlextra(field.Extra), comment |-> sqlcomment(field.Comment)]

AddIndexStmt(index) ==
    IF index.KeyName = "PRIMARY"
    THEN [kind |-> "ADD PRIMARY KEY", table |-> index.Table, word |-> "PRIMARY KEY",
          key |-> "PRIMARY", columns |-> index.ColumnName]
    ELSE [kind |-> "ADD INDEX", table |-> index.Table, word |-> sqluniq(index.NonUnique),
          key |-> index.KeyName, columns |-> index.ColumnName]

DropIndexes(table) ==
    [i \in DOMAIN table.Indexes.Drop |-> DropIndexStmt(table.Indexes.Drop[i])]

DropColumns(table) ==
    [i \in DOMAIN table.Fields.Drop |-> DropColumnStmt(table, table.Fields.Drop[i])]

AddColumns(table) ==
    [i \in DOMAIN table.Fields.Add |-> AddColumnStmt(table, table.Fields.Add[i])]

ChangeColumns(table) ==
    [i \in DOMAIN table.Fields.Change |-> ChangeColumnStmt(table, table.Fields.Change[i])]

AddIndexes(table) ==
    [i \in DOMAIN table.Indexes.Add |-> AddIndexStmt(table.Indexes.Add[i])]

\* GenerateChange with the index adds right after the index drops.
GenerateChange_IndexesFirst(table) ==
    AlterAttr(table) \o DropIndexes(table) \o AddIndexes(table) \o DropColumns(table)
        \o AddColumns(table) \o ChangeColumns(table)

\* GenerateChange with the column drops ahead of the index drops.
GenerateChange_ColumnDropsFirst(table) ==
    AlterAttr(table) \o DropColumns(table) \o DropIndexes(table)
        \o AddColumns(table) \o ChangeColumns(table) \o AddIndexes(table)

\* The statements of one entry of result.Change.
GenerateChange(table) ==
    AlterAttr(table) \o DropIndexes(table) \o DropColumns(table)
        \o AddColumns(table) \o ChangeColumns(table) \o AddIndexes(table)

\* Generate with the tables of Drop rendered after those of Create and Change.
Generate_DropsLast(r) ==
    IF ResultIsEmpty(r) THEN [sqls |-> <<>>, err |-> "nil"]
    ELSE [sqls |-> [i \in DOMAIN r.Create |-> CreateTableStmt(r.Create[i])]
                   \o Concat([i \in DOMAIN r.Change |-> GenerateChange(r.Change[i])])
                   \o [i \in DOMAIN r.Drop |-> DropTableStmt(r.Drop[i])],
          err |-> "nil"]

\* [sqls, err]: no path of Generate returns an error.
Generate(r) ==
    IF ResultIsEmpty(r) THEN [sqls |-> <<>>, err |-> "nil"]
    ELSE [sqls |-> [i \in DOMAIN r.Drop |-> DropTableStmt(r.Drop[i])]
                   \o [i \in DOMAIN r.Create |-> CreateTableStmt(r.Create[i])]
                   \o Concat([i \in DOMAIN r.Change |-> GenerateChange(r.Change[i])]),
          err |-> "nil"]

(***************************************************************************)
(* The snapshots explored.  Rows are what SHOW TABLE STATUS, SHOW FULL     *)
(* FIELDS and SHOW INDEX return for a base table: tables come sorted by    *)
(* name, names are unique within a table, every index column is a column   *)
(* of its table, engine and collation are never empty.                     *)
(***************************************************************************)
TypeInt == <<"i","n","t","(","1","1",")">>
TypeVarchar == <<"v","a","r","c","h","a","r","(","1","0",")">>
Utf8Bin == <<"u","t","f","8","_","b","i","n">>
Utf8GeneralCi == <<"u","t","f","8","_","g","e","n","e","r","a","l","_","c","i">>

KInt == [Type |-> TypeInt, Collation |-> Nil, Null |-> "NO", Default |-> Nil,
         Extra |-> <<>>, Comment |-> <<>>]
KInt0 == [KInt EXCEPT !.Default = Ptr(<<"0">>)]
KVc == [Type |-> TypeVarchar, Collation |-> Ptr(Utf8Bin), Null |-> "YES",
        Default |-> Ptr(<<"'">>), Extra |-> <<>>, Comment |-> <<"\\">>]

FieldNames == {"a", "b", "c"}
OldFieldNames == {"a", "b"}

KindsOf(name) ==
    IF name = "a" THEN {KInt, KInt0, KVc}
    ELSE IF name = "b" THEN {KInt}
    ELSE {KVc}

Reverse(s) == [i \in DOMAIN s |-> s[Len(s) + 1 - i]]

\* Sequences of distinct names, 1..MaxFields long.
NameLists ==
    {ns \in UNION {[1..n -> FieldNames] : n \in 1..MaxFields} :
        \A i, j \in DOMAIN ns : i # j => ns[i] # ns[j]}

MakeIndex(table, key, nonUnique, columns) ==
    [Table |-> table, NonUnique |-> nonUnique, KeyName |-> key, ColumnName |-> columns,
     Collation |-> "A", IndexType |-> "BTREE", Comment |-> "", IndexComment |-> ""]

\* Index lists over the columns ns of kinds ks: at most MaxIndexes indexes, PRIMARY
\* first and only on a NOT NULL column.
IndexLists(table, ns, ks) ==
    LET primaries == IF ks[1].Null = "NO" THEN {MakeIndex(table, "PRIMARY", 0, <<ns[1]>>)}
                     ELSE {}
        others == {MakeIndex(table, "k1", 0, ns), MakeIndex(table, "k1", 1, ns),
                   MakeIndex(table, "k1", 1, Reverse(ns))}
    IN {is \in {<<>>} \cup {<<x>> : x \in primaries \cup others}
                \cup {<<x, y>> : x \in primaries, y \in others} :
            Len(is) <= MaxIndexes}

\* The Key column of SHOW FULL FIELDS.
KeyOf(name, is) ==
    IF \E i \in DOMAIN is : is[i].KeyName = "PRIMARY" /\ name \in Range(is[i].ColumnName)
    THEN "PRI"
    ELSE IF \E i \in DOMAIN is : is[i].NonUnique = 0 /\ is[i].ColumnName[1] = name
    THEN "UNI"
    ELSE IF \E i \in DOMAIN is : is[i].ColumnName[1] = name
    THEN "MUL"
    ELSE ""

\* fields(): one Field per row, After the name of the row before it.
MakeFields(ns, kinds, is) ==
    [i \in DOMAIN ns |->
        [Field |-> ns[i], Type |-> kinds[i].Type, Collation |-> kinds[i].Collation,
         Null |-> kinds[i].Null, Key |-> KeyOf(ns[i], is), Default |-> kinds[i].Default,
         Extra |-> kinds[i].Extra, Comment |-> kinds[i].Comment,
         After |-> IF i = 1 THEN "" ELSE ns[i - 1]]]

\* tables(): one Table per row, Fields and Indexes left empty.
MakeTable(name, engine, options) ==
    [Name |-> name, Engine |-> engine, Version |-> "10", RowFormat |-> "Dynamic",
     Options |-> options, Comment |-> "", Collation |-> Utf8GeneralCi,
     Fields |-> NoFields, Indexes |-> NoIndexes]

Absent == [present |-> FALSE]

Present(detail, fields, indexes) ==
    [present |-> TRUE, detail |-> detail, fields |-> fields, indexes |-> indexes]

Engines == {"InnoDB", "MyISAM"}

KindLists(ns) ==
    {ks \in [DOMAIN ns -> {KInt, KInt0, KVc}] : \A i \in DOMAIN ns : ks[i] \in KindsOf(ns[i])}

\* Table t1: every field list, every index list over it, either engine.
T1Tables ==
    UNION {UNION {{Present(MakeTable("t1", e, ""), MakeFields(ns, ks, is), is) :
                      e \in Engines, is \in IndexLists("t1", ns, ks)} :
                  ks \in KindLists(ns)} :
           ns \in NameLists}

\* The t1 tables of one column, no index and the default engine.
T1Small ==
    {t \in T1Tables : Len(t.fields) = 1 /\ t.indexes = <<>> /\ t.detail.Engine = "InnoDB"}

\* Table t2: one column, no index; the engine or the create options vary.
T2Tables ==
    {Present(MakeTable("t2", q[1], q[2]), MakeFields(<<"a">>, <<KInt>>, <<>>), <<>>) :
        q \in {<<"InnoDB", "">>, <<"MyISAM", "">>, <<"InnoDB", "max_rows=10">>}}

T3Tables ==
    {Present(MakeTable("t3", "InnoDB", ""), MakeFields(<<"b">>, <<KInt>>, <<>>), <<>>)}

\* The snapshot holding the present tables of ts, which is sorted by name.
Snapshot(ts) ==
    LET here == SelectSeq(ts, LAMBDA t : t.present)
        names == {here[i].detail.Name : i \in DOMAIN here}
        of(name) == here[CHOOSE i \in DOMAIN here : here[i].detail.Name = name]
    IN [tables |-> [i \in DOMAIN here |-> here[i].detail],
        fields |-> [name \in names |-> of(name).fields],
        indexes |-> [name \in names |-> of(name).indexes]]

\* The t1 tables of the older database: the default engine, columns a and b only.
T1Old ==
    {t \in T1Tables :
        /\ t.detail.Engine = "InnoDB"
        /\ \A i \in DOMAIN t.fields : t.fields[i].Field \in OldFieldNames}

\* Pairs <<older, newer>>: t1 alone in all its variants (the older one with the default
\* engine), or a small t1 beside t2 and t3.
Inputs ==
    {<<Snapshot(<<x, Absent, Absent>>), Snapshot(<<y, Absent, Absent>>)>> :
        x \in T1Old \cup {Absent}, y \in T1Tables \cup {Absent}}
    \cup
    {<<Snapshot(<<x[1], x[2], x[3]>>), Snapshot(<<y[1], y[2], y[3]>>)>> :
        x, y \in (T1Small \cup {Absent}) \X (T2Tables \cup {Absent}) \X (T3Tables \cup {Absent})}

(***************************************************************************)
(* The run of the command-line tool (src/differ.go, main): Diff, then      *)
(* Generate on a Result the caller holds, then the statements applied in   *)
(* order to the older database.                                            *)
(***************************************************************************)
\* Result is a plain struct: the caller may hand Generate the Result of Diff, or one
\* of whose created tables it emptied the field list.
NoRendering ==
    [word |-> <<>>, casing |-> "", suffix |-> <<>>, typ |-> <<>>, default |-> Nil,
     stmt |-> "", clause |-> <<>>]

CallerResults(r) ==
    {r} \cup {[r EXCEPT !.Create[i].Fields.Create = <<>>] : i \in DOMAIN r.Create}

(***************************************************************************)
(* The MySQL server executing one generated statement on the schema d, a   *)
(* snapshot.  A statement the server rejects leaves the schema as it is.   *)
(***************************************************************************)
HasTable(d, name) == name \in DOMAIN d.fields

RECURSIVE unescape(_)
unescape(s) ==
    IF s = <<>> THEN <<>>
    ELSE IF Head(s) = "\\" /\ Len(s) >= 2 THEN <<s[2]>> \o unescape(SubSeq(s, 3, Len(s)))
    ELSE <<Head(s)>> \o unescape(Tail(s))

\* The value of a quoted literal 'x', or of a bare one.
Literal(s) == IF Head(s) = "'" THEN unescape(SubSeq(s, 2, Len(s) - 1)) ELSE s

ParsedNull(clause) == IF clause = " NOT NULL" THEN "NO" ELSE "YES"

ParsedDefault(clause) ==
    IF clause = <<>> THEN Nil
    ELSE Ptr(Literal(SubSeq(clause, Len(DefaultKw) + 1, Len(clause))))

ParsedComment(clause) ==
    IF clause = <<>> THEN <<>>
    ELSE Literal(SubSeq(clause, Len(CommentKw) + 1, Len(clause)))

CharacterTypes == {t \in QuotedTypes : IndexOf(t, "b") = 0}

IsCharacterType(typ) ==
    ToLower(IF IndexOf(typ, "(") # 0 THEN SubSeq(typ, 1, IndexOf(typ, "(") - 1) ELSE typ)
        \in CharacterTypes

\* The default collation of a character set (utf8 is the one the snapshots use).
DefaultCollation(charset) == charset \o <<"_","g","e","n","e","r","a","l","_","c","i">>

\* The column a definition yields in a table whose default collation is given.
ParsedColumn(def, col, tableCollation) ==
    [Field |-> def.column, Type |-> def.type,
     Collation |-> IF col.present THEN Ptr(col.collate)
                   ELSE IF IsCharacterType(def.type) THEN Ptr(tableCollation)
                   ELSE Nil,
     Null |-> ParsedNull(def.null), Key |-> "", Default |-> ParsedDefault(def.default),
     Extra |-> Tail(def.extra), Comment |-> ParsedComment(def.comment), After |-> ""]

NoCol == [present |-> FALSE, charset |-> <<>>, collate |-> <<>>]

\* SHOW FULL FIELDS of the columns fs under the indexes is.
Shown(fs, is) ==
    [i \in DOMAIN fs |->
        [fs[i] EXCEPT !.Key = KeyOf(fs[i].Field, is),
                      !.After = IF i = 1 THEN "" ELSE fs[i - 1].Field]]

WithTable(d, name, fs, is) ==
    [d EXCEPT !.fields[name] = Shown(fs, is), !.indexes[name] = is]

DetailOf(d, name) == d.tables[PosOf(d.tables, "Name", name)]

ParsedIndex(table, def) ==
    IF def.word = "PRIMARY KEY" THEN MakeIndex(table, "PRIMARY", 0, def.columns)
    ELSE MakeIndex(table, def.key, IF def.word = "UNIQUE" THEN 0 ELSE 1, def.columns)

\* Whether the server accepts statement s on schema d.
StmtValid(d, s) ==
    IF s.kind = "DROP TABLE" THEN TRUE
    ELSE IF s.kind = "CREATE TABLE"
    THEN /\ Len(s.columns) > 0
         /\ \A i \in DOMAIN s.indexes :
                Range(s.indexes[i].columns)
                    \subseteq {s.columns[j].column : j \in DOMAIN s.columns}
    ELSE /\ HasTable(d, s.table)
         /\ LET fs == d.fields[s.table]
                is == d.indexes[s.table]
            IN IF s.kind = "ALTER TABLE"
               THEN s.engineWord = "ENGINE" /\ s.rowFormatWord = "ROW_FORMAT"
               ELSE IF s.kind \in {"DROP PRIMARY KEY", "DROP INDEX"}
               THEN Exists(is, "KeyName", s.key)
               ELSE IF s.kind = "DROP"
               THEN Exists(fs, "Field", s.column) /\ Len(fs) > 1
               ELSE IF s.kind = "ADD"
               THEN /\ ~Exists(fs, "Field", s.column)
                    /\ s.after.kw = "AFTER" => Exists(fs, "Field", s.after.column)
               ELSE IF s.kind = "CHANGE"
               THEN Exists(fs, "Field", s.column)
               ELSE /\ ~Exists(is, "KeyName", s.key)
                    /\ \A c \in Range(s.columns) : Exists(fs, "Field", c)

\* The indexes is once column c is gone: it leaves every index listing it, and an
\* index left with no column goes too.
WithoutColumn(is, c) ==
    SelectSeq([i \in DOMAIN is |->
                  [is[i] EXCEPT !.ColumnName = SelectSeq(@, LAMBDA x : x # c)]],
              LAMBDA x : x.ColumnName # <<>>)

InsertAfter(fs, f, p) ==
    LET k == PosOf(fs, "Field", p)
    IN SubSeq(fs, 1, k) \o <<f>> \o SubSeq(fs, k + 1, Len(fs))

Applied(d, s) ==
    IF s.kind = "DROP TABLE"
    THEN [tables |-> SelectSeq(d.tables, LAMBDA t : t.Name # s.table),
          fields |-> [n \in DOMAIN d.fields \ {s.table} |-> d.fields[n]],
          indexes |-> [n \in DOMAIN d.indexes \ {s.table} |-> d.indexes[n]]]
    ELSE IF s.kind = "CREATE TABLE"
    THEN IF HasTable(d, s.table) THEN d
         ELSE LET collation == DefaultCollation(s.charset)
                  is == [i \in DOMAIN s.indexes |-> ParsedIndex(s.table, s.indexes[i])]
                  fs == [i \in DOMAIN s.columns |-> ParsedColumn(s.columns[i], NoCol, collation)]
              IN [tables |-> Append(d.tables,
                                 [Name |-> s.table, Engine |-> s.engine, Version |-> "10",
                                  RowFormat |-> "Dynamic", Options |-> "", Comment |-> "",
                                  Collation |-> collation,
                                  Fields |-> NoFields, Indexes |-> NoIndexes]),
                  fields |-> [n \in DOMAIN d.fields \cup {s.table} |->
                                 IF n = s.table THEN Shown(fs, is) ELSE d.fields[n]],
                  indexes |-> [n \in DOMAIN d.indexes \cup {s.table} |->
                                  IF n = s.table THEN is ELSE d.indexes[n]]]
    ELSE LET fs == d.fields[s.table]
             is == d.indexes[s.table]
             collation == DetailOf(d, s.table).Collation
         IN IF s.kind = "ALTER TABLE"
            THEN [d EXCEPT !.tables[PosOf(d.tables, "Name", s.table)] =
                     [@ EXCEPT !.Engine = s.engine, !.RowFormat = s.rowFormat,
                               !.Comment = s.comment, !.Collation = s.collate]]
            ELSE IF s.kind \in {"DROP PRIMARY KEY", "DROP INDEX"}
            THEN WithTable(d, s.table, fs, SelectSeq(is, LAMBDA x : x.KeyName # s.key))
            ELSE IF s.kind = "DROP"
            THEN WithTable(d, s.table, SelectSeq(fs, LAMBDA f : f.Field # s.column),
                           WithoutColumn(is, s.column))
            ELSE IF s.kind = "ADD"
            THEN WithTable(d, s.table,
                           IF s.after.kw = "AFTER"
                           THEN InsertAfter(fs, ParsedColumn(s, s.col, collation), s.after.column)
                           ELSE Append(fs, ParsedColumn(s, s.col, collation)),
                           is)
            ELSE IF s.kind = "CHANGE"
            THEN WithTable(d, s.table,
                           [fs EXCEPT ![PosOf(fs, "Field", s.column)] =
                               [ParsedColumn(s, s.col, collation) EXCEPT !.Field = s.to]],
                           is)
            ELSE IF s.kind = "ADD PRIMARY KEY"
            THEN WithTable(d, s.table, fs, <<ParsedIndex(s.table, s)>> \o is)
            ELSE WithTable(d, s.table, fs, Append(is, ParsedIndex(s.table, s)))

ExecStmt(d, s) == IF StmtValid(d, s) THEN Applied(d, s) ELSE d

Init ==
    \E p \in Inputs :
        /\ older = p[1]
        /\ newer = p[2]
        /\ pc = "start"
        /\ result = EmptyResult
        /\ arg = EmptyResult
        /\ sqls = <<>>
        /\ err = "nil"
        /\ db = p[1]
        /\ pos = 1
        /\ rendering = NoRendering

DoDiff ==
    /\ pc = "start"
    /\ LET d == Diff(older, newer)
       IN /\ pc' = IF d.panic THEN "panic" ELSE "diffed"
          /\ result' = d.result
    /\ UNCHANGED <<older, newer, arg, sqls, err, db, pos, rendering>>

DoGenerate ==
    /\ pc = "diffed"
    /\ \E r \in CallerResults(result) :
          /\ arg' = r
          /\ sqls' = Generate(r).sqls
          /\ err' = Generate(r).err
    /\ pc' = "generated"
    /\ UNCHANGED <<older, newer, result, db, pos, rendering>>

Execute ==
    /\ pc = "generated"
    /\ pos <= Len(sqls)
    /\ db' = ExecStmt(db, sqls[pos])
    /\ pos' = pos + 1
    /\ UNCHANGED <<older, newer, pc, result, arg, sqls, err, rendering>>

Next == DoDiff \/ DoGenerate \/ Execute

Spec == Init /\ [][Next]_vars

(***************************************************************************)
(* The rendering of one column's default clause, over type strings and     *)
(* default values of every shape: a word in some casing, then a suffix.    *)
(***************************************************************************)
W_int == <<"i","n","t">>
W_decimal == <<"d","e","c","i","m","a","l">>
W_datetime == <<"d","a","t","e","t","i","m","e">>
W_set == <<"s","e","t">>
W_varbinary == <<"v","a","r","b","i","n","a","r","y">>
W_character == <<"c","h","a","r","a","c","t","e","r">>
W_tex == <<"t","e","x">>

TypeWords == QuotedTypes \cup {W_int, W_decimal, W_datetime, W_set, W_varbinary, W_character, W_tex}

Casings == {"lower", "UPPER", "Title"}

ToUpper(s) ==
    [i \in DOMAIN s |->
        IF \E k \in DOMAIN LowerCase : LowerCase[k] = s[i]
        THEN UpperCase[CHOOSE k \in DOMAIN LowerCase : LowerCase[k] = s[i]]
        ELSE s[i]]

Cased(word, casing) ==
    IF casing = "UPPER" THEN ToUpper(word)
    ELSE IF casing = "Title" THEN ToUpper(<<Head(word)>>) \o Tail(word)
    ELSE word

\* Nothing, a length, a set of values holding a parenthesis, a word before the length.
TypeSuffixes ==
    {<<>>, <<"(","1",")">>, <<"(","'","a","(","'",",","'","b","'",")">>,
     <<" ","x","(","1",")">>}

DefaultChars == {"\\", "'", "a"}

DefaultValues ==
    {Nil} \cup {Ptr(v) : v \in UNION {[1..n -> DefaultChars] : n \in 0..MaxDefaultLen}}

ColumnOfType(typ, default) ==
    [Field |-> "a", Type |-> typ, Collation |-> Nil, Null |-> "YES", Key |-> "",
     Default |-> default, Extra |-> <<>>, Comment |-> <<>>, After |-> ""]

InitDefault ==
    /\ older = Snapshot(<<>>)
    /\ newer = Snapshot(<<>>)
    /\ pc = "idle"
    /\ result = EmptyResult
    /\ arg = EmptyResult
    /\ sqls = <<>>
    /\ err = "nil"
    /\ db = Snapshot(<<>>)
    /\ pos = 1
    /\ \E word \in TypeWords, casing \in Casings, suffix \in TypeSuffixes,
          default \in DefaultValues :
          rendering = [word |-> word, casing |-> casing, suffix |-> suffix,
                       typ |-> Cased(word, casing) \o suffix, default |-> default,
                       stmt |-> "", clause |-> <<>>]

\* Generate renders the column in a CREATE TABLE statement,
RenderCreate ==
    /\ rendering.stmt = ""
    /\ LET table == [MakeTable("t1", "InnoDB", "") EXCEPT
                        !.Fields.Create = <<ColumnOfType(rendering.typ, rendering.default)>>]
       IN rendering' = [rendering EXCEPT !.stmt = "CREATE TABLE",
                                         !.clause = CreateTableStmt(table).columns[1].default]
    /\ UNCHANGED <<older, newer, pc, result, arg, sqls, err, db, pos>>

\* in an ALTER TABLE ... ADD statement,
RenderAdd ==
    /\ rendering.stmt = ""
    /\ LET table == MakeTable("t1", "InnoDB", "")
           field == ColumnOfType(rendering.typ, rendering.default)
       IN rendering' = [rendering EXCEPT !.stmt = "ADD",
                                         !.clause = AddColumnStmt(table, field).default]
    /\ UNCHANGED <<older, newer, pc, result, arg, sqls, err, db, pos>>

\* or in an ALTER TABLE ... CHANGE statement.
RenderChange ==
    /\ rendering.stmt = ""
    /\ LET table == MakeTable("t1", "InnoDB", "")
           field == ColumnOfType(rendering.typ, rendering.default)
       IN rendering' = [rendering EXCEPT !.stmt = "CHANGE",
                                         !.clause = ChangeColumnStmt(table, field).default]
    /\ UNCHANGED <<older, newer, pc, result, arg, sqls, err, db, pos>>

NextDefault == RenderCreate \/ RenderAdd \/ RenderChange

SpecDefault == InitDefault /\ [][NextDefault]_vars

(***************************************************************************)
(* Vocabulary of the properties.                                           *)
(***************************************************************************)
Returned == pc \in {"diffed", "generated"}
Generated == pc = "generated" /\ arg = result
Executed == Generated /\ pos > Len(sqls)

InBoth == DOMAIN older.fields \cap DOMAIN newer.fields

Names(fs) == [i \in DOMAIN fs |-> fs[i].Field]

ChangeOf(r, t) == SelectSeq(r.Change, LAMBDA c : c.Name = t)
StatementsOf(t) == SelectSeq(sqls, LAMBDA s : s.table = t)

\* How many records of seq carry the key name, and how many statements of a phase.
CountKey(seq, key) == Cardinality({i \in DOMAIN seq : seq[i].KeyName = key})

\* What the convergence claim compares of a column and of an index.
ColumnOf(f) ==
    [Field |-> f.Field, Type |-> f.Type, Collation |-> f.Collation, Null |-> f.Null,
     Default |-> f.Default, Extra |-> f.Extra, Comment |-> f.Comment]
KeyOfIndex(i) == [KeyName |-> i.KeyName, NonUnique |-> i.NonUnique, ColumnName |-> i.ColumnName]

SameSchema(d, n) ==
    /\ DOMAIN d.fields = DOMAIN n.fields
    /\ \A t \in DOMAIN n.fields :
          /\ {ColumnOf(x) : x \in Range(d.fields[t])} = {ColumnOf(x) : x \in Range(n.fields[t])}
          /\ {KeyOfIndex(x) : x \in Range(d.indexes[t])}
                = {KeyOfIndex(x) : x \in Range(n.indexes[t])}

\* C1. Convergence: once the statements generated from Diff(older, newer) have been
\* executed in order on the older schema, it has exactly the tables of newer, each
\* with the columns (name, type, collation, nullability, default, extra, comment)
\* and the indexes (key name, uniqueness flag, ordered column list) of newer.
C1_Convergence == Executed => SameSchema(db, newer)

\* C2. Reflexivity: Diff(S, S) returns, its Drop, Create and Change lists are empty,
\* Result.IsEmpty() holds of it and Generate returns no statement for it.
C2_Reflexivity ==
    older = newer =>
        /\ pc # "panic"
        /\ Returned =>
              /\ result.Drop = <<>> /\ result.Create = <<>> /\ result.Change = <<>>
              /\ ResultIsEmpty(result)
        /\ pc = "generated" => arg = result /\ sqls = <<>> /\ err = "nil"

C2_Witness ==
    /\ older = newer /\ pc = "generated"
    /\ \E t \in DOMAIN older.fields :
          /\ older.indexes[t] # <<>>
          /\ \E f \in Range(older.fields[t]) : f.Collation.nil /\ f.Default.nil
          /\ \E f \in Range(older.fields[t]) : ~f.Collation.nil /\ ~f.Default.nil

\* The place of a statement in the order attribute ALTER, index drops, column drops,
\* column adds, column changes, index adds.
Phase(s) ==
    IF s.kind = "ALTER TABLE" THEN 1
    ELSE IF s.kind \in {"DROP PRIMARY KEY", "DROP INDEX"} THEN 2
    ELSE IF s.kind = "DROP" THEN 3
    ELSE IF s.kind = "ADD" THEN 4
    ELSE IF s.kind = "CHANGE" THEN 5
    ELSE IF s.kind \in {"ADD PRIMARY KEY", "ADD INDEX"} THEN 6
    ELSE 0

\* C3. Per-table statement order: the statements Generate emits for a table of
\* Change come as the attribute ALTER (at most one), then the index drops, the
\* column drops, the column adds, the column changes, and last the index adds.
C3_StatementOrder ==
    pc = "generated" =>
        \A k \in DOMAIN arg.Change :
            LET st == StatementsOf(arg.Change[k].Name)
            IN /\ \A i, j \in DOMAIN st : i < j => Phase(st[i]) <= Phase(st[j])
               /\ Cardinality({i \in DOMAIN st : st[i].kind = "ALTER TABLE"}) <= 1
               /\ Len(st) = Len(GenerateChange(arg.Change[k]))

C3_Witness ==
    /\ pc = "generated"
    /\ \E k \in DOMAIN arg.Change :
          {Phase(s) : s \in Range(StatementsOf(arg.Change[k].Name))} = 1..6

\* C4. Generate fails with an error and returns no statement when a table of Create
\* has an empty Fields.Create list, whatever else the Result holds.
C4_EmptyCreateFails ==
    (pc = "generated" /\ \E i \in DOMAIN arg.Create : arg.Create[i].Fields.Create = <<>>)
        => err # "nil" /\ sqls = <<>>

\* C5. Diff is total over the optional attributes: it returns for every pair of
\* snapshots, and a column of both whose collation or default is absent in one and
\* present in the other is in Fields.Change with the newer record.
C5_DiffTotal ==
    pc # "start" =>
        /\ pc # "panic"
        /\ \A t \in InBoth : \A o \in Range(older.fields[t]), n \in Range(newer.fields[t]) :
              (/\ o.Field = n.Field
               /\ o.Collation.nil # n.Collation.nil \/ o.Default.nil # n.Default.nil)
                  => \E c \in Range(result.Change) : c.Name = t /\ n \in Range(c.Fields.Change)

\* C6. A table whose fields, indexes, name, engine, row format, collation and comment
\* are the same in both snapshots gets no Change entry and no statement, whatever
\* its options string.
C6_OptionsIgnored ==
    Returned =>
        \A t \in InBoth :
            LET o == DetailOf(older, t)
                n == DetailOf(newer, t)
            IN (/\ older.fields[t] = newer.fields[t]
                /\ older.indexes[t] = newer.indexes[t]
                /\ o.Name = n.Name /\ o.Engine = n.Engine /\ o.RowFormat = n.RowFormat
                /\ o.Collation = n.Collation /\ o.Comment = n.Comment)
                   => /\ ChangeOf(result, t) = <<>>
                      /\ Generated => StatementsOf(t) = <<>>

\* C7. Index replacement: an index of a table of both snapshots whose key name is in
\* both and whose records differ is once in Indexes.Drop (the old record) and once
\* in Indexes.Add (the new record) of the table's Change entry, whose Indexes.Create
\* is empty, and Generate renders one drop and one add statement for the key name
\* (DROP PRIMARY KEY / ADD PRIMARY KEY for PRIMARY); an equal index gets no entry.
C7_IndexReplacement ==
    Returned =>
        \A t \in InBoth : \A o \in Range(older.indexes[t]), n \in Range(newer.indexes[t]) :
            o.KeyName = n.KeyName =>
                LET key == o.KeyName
                    ch == ChangeOf(result, t)
                    st == StatementsOf(t)
                    drops == {i \in DOMAIN st : Phase(st[i]) = 2 /\ st[i].key = key}
                    adds == {i \in DOMAIN st : Phase(st[i]) = 6 /\ st[i].key = key}
                IN IF o # n
                   THEN /\ Len(ch) = 1
                        /\ CountKey(ch[1].Indexes.Drop, key) = 1
                        /\ o \in Range(ch[1].Indexes.Drop)
                        /\ CountKey(ch[1].Indexes.Add, key) = 1
                        /\ n \in Range(ch[1].Indexes.Add)
                        /\ ch[1].Indexes.Create = <<>>
                        /\ Generated =>
                              /\ Cardinality(drops) = 1
                              /\ Cardinality(adds) = 1
                              /\ \A i \in drops :
                                    (st[i].kind = "DROP PRIMARY KEY") = (key = "PRIMARY")
                              /\ \A i \in adds :
                                    /\ (st[i].kind = "ADD PRIMARY KEY") = (key = "PRIMARY")
                                    /\ st[i].columns = n.ColumnName
                   ELSE \A c \in Range(ch) :
                            /\ CountKey(c.Indexes.Drop, key) = 0
                            /\ CountKey(c.Indexes.Add, key) = 0

\* An index changed in nothing but the order of its columns, its statements rendered.
C7_Witness ==
    /\ Generated
    /\ \E t \in InBoth : \E o \in Range(older.indexes[t]), n \in Range(newer.indexes[t]) :
          /\ o.KeyName = n.KeyName /\ o.NonUnique = n.NonUnique
          /\ o.ColumnName # n.ColumnName
          /\ Range(o.ColumnName) = Range(n.ColumnName)

AttributesDiffer(o, n) ==
    \/ o.Engine # n.Engine \/ o.Version # n.Version \/ o.RowFormat # n.RowFormat
    \/ o.Options # n.Options \/ o.Comment # n.Comment \/ o.Collation # n.Collation

C9_AddedColumnPlacement ==
    Returned =>
        \A t \in InBoth : \A i \in DOMAIN newer.fields[t] :
            LET f == newer.fields[t][i]
                before == IF i = 1 THEN "" ELSE newer.fields[t][i - 1].Field
                ch == ChangeOf(result, t)
                now == Names(db.fields[t])
            IN ~Exists(older.fields[t], "Field", f.Field) =>
                  /\ Len(ch) = 1
                  /\ \E x \in Range(ch[1].Fields.Add) : x.Field = f.Field /\ x.After = before
                  /\ Generated =>
                        \E s \in Range(StatementsOf(t)) :
                            /\ s.kind = "ADD" /\ s.column = f.Field
                            /\ (s.after.kw = "AFTER") = (before # "")
                            /\ s.after.kw = "AFTER" => s.after.column = before
                  /\ Executed =>
                        \E k \in DOMAIN now :
                            /\ now[k] = f.Field
                            /\ IF before = "" THEN k = 1 ELSE k > 1 /\ now[k - 1] = before

\* The string, text, enum and blob types.
StringFamily ==
    { <<"c","h","a","r">>, <<"v","a","r","c","h","a","r">>,
      <<"t","e","x","t">>, <<"t","i","n","y","t","e","x","t">>,
      <<"m","e","d","i","u","m","t","e","x","t">>, <<"l","o","n","g","t","e","x","t">>,
      <<"b","l","o","b">>, <<"t","i","n","y","b","l","o","b">>,
      <<"m","e","d","i","u","m","b","l","o","b">>, <<"l","o","n","g","b","l","o","b">>,
      <<"e","n","u","m">> }

\* The type string being a word in some casing and a suffix, its base type (the
\* string cut before its first "(", compared without regard to case) is of a family
\* when the word is and the suffix is empty or opens with the parenthesis.
BaseIsOf(family) ==
    /\ rendering.word \in family
    /\ rendering.suffix = <<>> \/ Head(rendering.suffix) = "("

\* A value with each backslash and each single quote prefixed by a backslash.
Escaped(v) == Concat([i \in DOMAIN v |-> IF v[i] \in {"\\", "'"} THEN <<"\\", v[i]>> ELSE <<v[i]>>])

\* C10. Default-value rendering: in CREATE TABLE, ADD and CHANGE statements alike, an
\* absent default renders no clause, a present one renders DEFAULT '<escaped value>'
\* exactly when the base type is of the string/text/enum/blob family, and
\* DEFAULT <value>, raw and unquoted, for every other base type.
C10_DefaultRendering ==
    rendering.stmt # "" =>
        rendering.clause =
            IF rendering.default.nil THEN <<>>
            ELSE IF BaseIsOf(StringFamily)
            THEN <<" ","D","E","F","A","U","L","T"," ","'">>
                    \o Escaped(rendering.default.v) \o <<"'">>
            ELSE <<" ","D","E","F","A","U","L","T"," ">> \o rendering.default.v

\* VARCHAR(1) with a default holding a quote and a backslash, in a CHANGE statement.
C10_Witness ==
    /\ rendering.stmt = "CHANGE"
    /\ rendering.typ = <<"V","A","R","C","H","A","R","(","1",")">>
    /\ ~rendering.default.nil
    /\ Range(rendering.default.v) = {"\\", "'"}

\* C11. Dropped table: for a table of older that newer does not have, the generated
\* sequence holds exactly one DROP TABLE statement naming it and no other statement
\* naming it, and that statement comes before every CREATE TABLE and every ALTER
\* TABLE statement of the sequence.
C11_DroppedTable ==
    Generated =>
        \A t \in DOMAIN older.fields \ DOMAIN newer.fields :
            LET here == {i \in DOMAIN sqls : sqls[i].table = t}
            IN /\ Cardinality(here) = 1
               /\ \A i \in here :
                     /\ sqls[i].kind = "DROP TABLE"
                     /\ \A j \in DOMAIN sqls : sqls[j].kind # "DROP TABLE" => i < j

\* A table dropped beside one created and one changed.
C11_Witness ==
    /\ Generated
    /\ DOMAIN older.fields \ DOMAIN newer.fields # {}
    /\ \E i, j \in DOMAIN sqls : sqls[i].kind = "CREATE TABLE" /\ Phase(sqls[j]) > 0

\* Whether statement s, about to be executed on schema d, refers only to what d has:
\* a column dropped is there and no index of the table lists it, the column an ADD
\* is placed after is there, a column changed is there, an index dropped is there,
\* and the columns of an index added are there.
Referential(d, s) ==
    /\ HasTable(d, s.table)
    /\ LET fs == d.fields[s.table]
           is == d.indexes[s.table]
       IN IF s.kind \in {"DROP PRIMARY KEY", "DROP INDEX"}
          THEN Exists(is, "KeyName", s.key)
          ELSE IF s.kind = "DROP"
          THEN /\ Exists(fs, "Field", s.column)
               /\ \A x \in Range(is) : s.column \notin Range(x.ColumnName)
          ELSE IF s.kind = "ADD"
          THEN s.after.kw = "AFTER" => Exists(fs, "Field", s.after.column)
          ELSE IF s.kind = "CHANGE"
          THEN Exists(fs, "Field", s.column)
          ELSE IF s.kind \in {"ADD PRIMARY KEY", "ADD INDEX"}
          THEN \A c \in Range(s.columns) : Exists(fs, "Field", c)
          ELSE TRUE

\* C12. Referential validity during execution: as the statements generated for a
\* table of both snapshots are executed one by one from the older table, each refers
\* only to what the table has at that moment: no column is dropped while an index of
\* the table lists it, every ADD ... AFTER p finds column p, every CHANGE names a
\* column of the table, every DROP INDEX an index of it, and every ADD INDEX lists
\* columns of it only.
C12_ReferentialValidity ==
    (Generated /\ pos <= Len(sqls) /\ sqls[pos].table \in InBoth)
        => Referential(db, sqls[pos])

\* A column that an index of the older table lists is about to be dropped, the
\* index dropped before it, and an index is to be added after it.
C12_Witness ==
    /\ Generated /\ pos <= Len(sqls)
    /\ LET s == sqls[pos]
       IN /\ s.kind = "DROP"
          /\ \E x \in Range(older.indexes[s.table]) : s.column \in Range(x.ColumnName)
          /\ \E i \in 1..(pos - 1) : Phase(sqls[i]) = 2 /\ sqls[i].table = s.table
          /\ \E j \in (pos + 1)..Len(sqls) :
                Phase(sqls[j]) = 6 /\ sqls[j].table = s.table

====
